---------------------------- MODULE Spec2Model ----------------------------
(***************************************************************************)
(* A model of the Hermit platform layer of std: sys/hermit/fs.rs (File,    *)
(* OpenOptions, ReadDir), sys/hermit/net.rs (TcpStream, TcpListener,       *)
(* UdpSocket over a reference-counted Socket) and os/hermit/io.rs (the     *)
(* FromAbi / AsAbi conversions).  The native ABI (hermit_abi) is the       *)
(* environment: its results are drawn nondeterministically.                *)
(*                                                                         *)
(* The module holds these specifications over one set of variables; each  *)
(* leaves the variables of the other components at their initial value:    *)
(*   SpecOpen  OpenOptions and File::open_c                                *)
(*   SpecAbi   the address / shutdown conversions                          *)
(*   SpecDir   readdir and ReadDir::next                                   *)
(*   SpecNet   sockets, TcpStream, TcpListener: connect, bind, accept,     *)
(*             duplicate, drop                                             *)
(*   SpecTimeout  the timeouts of a connected TcpStream and its clones     *)
(*   SpecUdp   the UdpSocket stubs                                         *)
(*   SpecStub  the path functions, File methods and TCP options that have  *)
(*             no native equivalent, beside unlink and rmdir               *)
(*   SpecBridge  the error bridge on native errors, and init()             *)
(*   SpecLife  connect, connect_timeout, bind and drop                     *)
(*   SpecOwn   duplicate, drop and into_socket on a listener and a stream  *)
(*   SpecDirLife  readdir, next and the drops of ReadDir and DirEntry      *)
(***************************************************************************)
EXTENDS Integers, Sequences, FiniteSets, TLC

VARIABLES
    \* ---- fs.rs: OpenOptions / File::open_c
    opts,           \* the OpenOptions value being built
    nativeOpens,    \* number of abi::open calls issued so far
    lastOpen,       \* history: the last File::open_c call, its native call and result
    \* ---- io.rs: conversions
    abiCase,        \* the last conversion applied: its input and its results
    \* ---- fs.rs: ReadDir
    rd,             \* the ReadDir object and the native directory stream under it
    errno,          \* the native error-code side channel read by os::errno()
    yielded,        \* history: the DirEntry values next() has returned, in order
    nextLog,        \* history: the results of the next() calls, in order
    \* ---- net.rs
    socks,          \* native socket table: socket id -> native socket state
    arcs,           \* Arc<Socket> allocations: arc id -> [kind, sock, strong]
    netRet,         \* history: the last net operation, its native calls and result
    udpRet,         \* history: the last UdpSocket operation and its result
    handedOut,      \* history: the native sockets into_socket has returned
    \* ---- fs.rs: path operations and File methods
    fsTree,         \* the native filesystem: the paths that exist
    fsCalls,        \* number of native filesystem calls issued so far
    fsRet,          \* history: the last path / File operation and its result
    \* ---- io.rs error bridge, net.rs init
    errCase,        \* the native error under conversion and its result
    netStack,       \* the native network stack: started or not, bring-ups done
    initLog,        \* history: the results of the init() calls, in order
    \* ---- fs.rs: the native directory handle behind ReadDir and DirEntry
    dhandles,       \* native directory handles: handle id -> [open, closes]
    inners,         \* Arc<InnerReadDir> allocations: id -> [dirp, root, strong]
    readdirs,       \* the ReadDir values made by readdir
    entries,        \* the DirEntry values yielded
    dirRet          \* history: the last readdir / next / drop and its result

openVars == <<opts, nativeOpens, lastOpen>>
abiVars  == <<abiCase>>
dirVars  == <<rd, errno, yielded, nextLog>>
netVars  == <<socks, arcs, netRet>>
udpVars  == <<udpRet>>
ownVars  == <<handedOut>>
pathVars == <<fsTree, fsCalls, fsRet>>
bridgeVars == <<errCase, netStack, initLog>>
lifeVars == <<dhandles, inners, readdirs, entries, dirRet>>
restVars == <<pathVars, bridgeVars, lifeVars>>
vars     == <<openVars, abiVars, dirVars, netVars, udpVars, ownVars, restVars>>

\* the variables of the other components, which a component's actions leave alone
notOpen == <<abiVars, dirVars, netVars, udpVars, ownVars, restVars>>
notAbi  == <<openVars, dirVars, netVars, udpVars, ownVars, restVars>>
notDir  == <<openVars, abiVars, netVars, udpVars, ownVars, restVars>>
notNet  == <<openVars, abiVars, dirVars, udpVars, ownVars, restVars>>
notUdp  == <<openVars, abiVars, dirVars, netVars, ownVars, restVars>>
oldVars == <<openVars, abiVars, dirVars, udpVars>>
notOwn  == <<oldVars, restVars>>
notPath == <<oldVars, ownVars, bridgeVars, lifeVars>>
notBridge == <<oldVars, netVars, ownVars, pathVars, lifeVars>>
notLife == <<oldVars, netVars, ownVars, pathVars, bridgeVars>>

-----------------------------------------------------------------------------
(* io::Result values *)

Ok(v)          == [ok |-> TRUE, val |-> v]
Err(kind, msg) == [ok |-> FALSE, kind |-> kind, msg |-> msg]

\* Error::from_raw_os_error(code): an OS error carrying the raw code
OsError(code)  == [ok |-> FALSE, kind |-> "Os", msg |-> code]

\* sys::unsupported(): the fixed "operation not supported" error
unsupported    == Err("Unsupported", "operation not supported on this platform")

\* a panic: the call does not return a value (unimplemented!() at fs.rs:272,
\* unwrap() of an Err at net.rs:74)
Panic(msg)     == [ok |-> FALSE, kind |-> "panic", msg |-> msg]

\* sys::hermit::cvt: a negative native result is the negated error code
cvt(r) == IF r < 0 THEN OsError(-r) ELSE Ok(r)

-----------------------------------------------------------------------------
(* Bit operations on non-negative i32 flag words *)

RECURSIVE BitOr(_, _)
BitOr(a, b) ==
    IF a = 0 THEN b
    ELSE IF b = 0 THEN a
    ELSE (IF a % 2 = 1 \/ b % 2 = 1 THEN 1 ELSE 0) + 2 * BitOr(a \div 2, b \div 2)

RECURSIVE BitAnd(_, _)
BitAnd(a, b) ==
    IF a = 0 \/ b = 0 THEN 0
    ELSE (IF a % 2 = 1 /\ b % 2 = 1 THEN 1 ELSE 0) + 2 * BitAnd(a \div 2, b \div 2)

-----------------------------------------------------------------------------
(***************************************************************************)
(* fs.rs: OpenOptions and File::open_c                                     *)
(***************************************************************************)

\* hermit_abi open flags, imported at fs.rs:15-18
O_RDONLY == 0
O_WRONLY == 1
O_RDWR   == 2
O_CREAT  == 64
O_EXCL   == 128
O_TRUNC  == 512
O_APPEND == 1024

\* OpenOptions::new: mode: 0o777
DefaultMode == 511

\* bound: abi::open calls issued in one behaviour
MaxNativeOpens == 2

\* results abi::open may produce: a descriptor, or a negated error code
NativeOpenResults == {3, -2, -22}

OpenOptions_new ==
    [read |-> FALSE, write |-> FALSE, append |-> FALSE, truncate |-> FALSE,
     create |-> FALSE, create_new |-> FALSE, mode |-> DefaultMode]

get_access_mode(o) ==
    CASE  o.read /\ ~o.write /\ ~o.append  -> Ok(O_RDONLY)
      [] ~o.read /\  o.write /\ ~o.append  -> Ok(O_WRONLY)
      []  o.read /\  o.write /\ ~o.append  -> Ok(O_RDWR)
      [] ~o.read /\ o.append               -> Ok(BitOr(O_WRONLY, O_APPEND))
      []  o.read /\ o.append               -> Ok(BitOr(O_RDWR, O_APPEND))
      [] ~o.read /\ ~o.write /\ ~o.append  -> Err("InvalidInput", "invalid access mode")

creation_flags(o) ==
    CASE ~o.create /\ ~o.truncate /\ ~o.create_new -> 0
      []  o.create /\ ~o.truncate /\ ~o.create_new -> O_CREAT
      [] ~o.create /\  o.truncate /\ ~o.create_new -> O_TRUNC
      []  o.create /\  o.truncate /\ ~o.create_new -> BitOr(O_CREAT, O_TRUNC)
      []  o.create_new                             -> BitOr(O_CREAT, O_EXCL)

\* mutant: the append + truncate check is missing
get_creation_mode_noappendcheck(o) ==
    IF ~o.write /\ ~o.append /\ (o.truncate \/ o.create \/ o.create_new)
    THEN Err("InvalidInput", "invalid creation mode")
    ELSE Ok(creation_flags(o))

get_creation_mode(o) ==
    IF o.write /\ ~o.append
    THEN Ok(creation_flags(o))
    ELSE IF ~o.write /\ ~o.append
    THEN IF o.truncate \/ o.create \/ o.create_new
         THEN Err("InvalidInput", "invalid creation mode")
         ELSE Ok(creation_flags(o))
    ELSE IF o.truncate /\ ~o.create_new
         THEN Err("InvalidInput", "invalid creation mode")
         ELSE Ok(creation_flags(o))

\* the flags word File::open_c computes (both resolutions succeeded)
open_flags(o) == BitOr(get_access_mode(o).val, get_creation_mode(o).val)

\* mutant: the mode is passed whatever the flags are
open_mode_always(o) == o.mode

\* the mode argument File::open_c passes
open_mode(o) ==
    IF BitAnd(open_flags(o), O_CREAT) = O_CREAT THEN o.mode ELSE 0

NoCall == [issued |-> FALSE]
OpenCall(flags, mode) == [issued |-> TRUE, flags |-> flags, mode |-> mode]

\* File::open_c with native result r: the native call it issues (if any)
\* and the io::Result it returns
open_c(o, r) ==
    IF ~get_access_mode(o).ok
    THEN [call |-> NoCall, res |-> get_access_mode(o)]
    ELSE IF ~get_creation_mode(o).ok
    THEN [call |-> NoCall, res |-> get_creation_mode(o)]
    ELSE [call |-> OpenCall(open_flags(o), open_mode(o)), res |-> cvt(r)]

OpenInit ==
    /\ opts = OpenOptions_new
    /\ nativeOpens = 0
    /\ lastOpen = [called |-> FALSE]

SetRead(b)      == opts' = [opts EXCEPT !.read = b]       /\ UNCHANGED <<nativeOpens, lastOpen, notOpen>>
SetWrite(b)     == opts' = [opts EXCEPT !.write = b]      /\ UNCHANGED <<nativeOpens, lastOpen, notOpen>>
SetAppend(b)    == opts' = [opts EXCEPT !.append = b]     /\ UNCHANGED <<nativeOpens, lastOpen, notOpen>>
SetTruncate(b)  == opts' = [opts EXCEPT !.truncate = b]   /\ UNCHANGED <<nativeOpens, lastOpen, notOpen>>
SetCreate(b)    == opts' = [opts EXCEPT !.create = b]     /\ UNCHANGED <<nativeOpens, lastOpen, notOpen>>
SetCreateNew(b) == opts' = [opts EXCEPT !.create_new = b] /\ UNCHANGED <<nativeOpens, lastOpen, notOpen>>

FileOpen ==
    /\ nativeOpens < MaxNativeOpens
    /\ \E r \in NativeOpenResults :
         LET out == open_c(opts, r) IN
         /\ nativeOpens' = IF out.call.issued THEN nativeOpens + 1 ELSE nativeOpens
         /\ lastOpen' = [called |-> TRUE, opts |-> opts, before |-> nativeOpens,
                         call |-> out.call, res |-> out.res]
    /\ UNCHANGED <<opts, notOpen>>

OpenNext ==
    \/ \E b \in BOOLEAN : SetRead(b)
    \/ \E b \in BOOLEAN : SetWrite(b)
    \/ \E b \in BOOLEAN : SetAppend(b)
    \/ \E b \in BOOLEAN : SetTruncate(b)
    \/ \E b \in BOOLEAN : SetCreate(b)
    \/ \E b \in BOOLEAN : SetCreateNew(b)
    \/ FileOpen

-----------------------------------------------------------------------------
(***************************************************************************)
(* io.rs: FromAbi / AsAbi for addresses, socket addresses and Shutdown     *)
(***************************************************************************)

\* sample component values: u8 octets, u16 segments / ports, u32 fields
U8s  == {0, 7, 255}
U16s == {0, 258}
U32s == {0, 65537}

\* std::net::Ipv4Addr keeps its four octets
Ipv4Addr_new(a, b, c, d) == [octets |-> <<a, b, c, d>>]
Ipv4Addr_octets(ip)      == ip.octets

\* std::net::Ipv6Addr keeps sixteen octets; a segment is two of them, high first
Ipv6Addr_new(a, b, c, d, e, f, g, h) ==
    [octets |-> << a \div 256, a % 256, b \div 256, b % 256, c \div 256, c % 256,
                   d \div 256, d % 256, e \div 256, e % 256, f \div 256, f % 256,
                   g \div 256, g % 256, h \div 256, h % 256 >>]
Ipv6Addr_segments(ip) == [i \in 1..8 |-> ip.octets[2 * i - 1] * 256 + ip.octets[2 * i]]

SocketAddrV4_new(ip, port) == [ip |-> ip, port |-> port]
SocketAddrV6_new(ip, port, flowinfo, scope_id) ==
    [ip |-> ip, port |-> port, flowinfo |-> flowinfo, scope_id |-> scope_id]

V4(x) == [tag |-> "V4", v |-> x]
V6(x) == [tag |-> "V6", v |-> x]

\* ---- from_abi (io.rs:77-92, 119-134, 167-175)
Ipv4Addr_from_abi(ip) == Ipv4Addr_new(ip.a, ip.b, ip.c, ip.d)
Ipv6Addr_from_abi(ip) == Ipv6Addr_new(ip.a, ip.b, ip.c, ip.d, ip.e, ip.f, ip.g, ip.h)
IpAddr_from_abi(ip) ==
    IF ip.tag = "V4" THEN V4(Ipv4Addr_from_abi(ip.v)) ELSE V6(Ipv6Addr_from_abi(ip.v))
SocketAddrV4_from_abi(saddr) ==
    SocketAddrV4_new(Ipv4Addr_from_abi(saddr.ip_addr), saddr.port)
SocketAddrV6_from_abi(saddr) ==
    SocketAddrV6_new(Ipv6Addr_from_abi(saddr.ip_addr), saddr.port,
                     saddr.flowinfo, saddr.scope_id)
SocketAddr_from_abi(saddr) ==
    IF saddr.tag = "V4" THEN V4(SocketAddrV4_from_abi(saddr.v))
                        ELSE V6(SocketAddrV6_from_abi(saddr.v))
Shutdown_from_abi(sd) ==
    CASE sd = "abi::Read"  -> "Read"
      [] sd = "abi::Write" -> "Write"
      [] sd = "abi::Both"  -> "Both"

\* ---- as_abi (io.rs:94-115, 136-163, 177-185)
Ipv4Addr_as_abi(self) ==
    LET o == Ipv4Addr_octets(self) IN [a |-> o[1], b |-> o[2], c |-> o[3], d |-> o[4]]
Ipv6Addr_as_abi(self) ==
    LET s == Ipv6Addr_segments(self) IN
    [a |-> s[1], b |-> s[2], c |-> s[3], d |-> s[4],
     e |-> s[5], f |-> s[6], g |-> s[7], h |-> s[8]]
IpAddr_as_abi(self) ==
    IF self.tag = "V4" THEN V4(Ipv4Addr_as_abi(self.v)) ELSE V6(Ipv6Addr_as_abi(self.v))
SocketAddrV4_as_abi(self) ==
    [ip_addr |-> Ipv4Addr_as_abi(self.ip), port |-> self.port]
\* mutant: flowinfo and scope_id change places
SocketAddrV6_as_abi_swapped(self) ==
    [ip_addr |-> Ipv6Addr_as_abi(self.ip), port |-> self.port,
     flowinfo |-> self.scope_id, scope_id |-> self.flowinfo]

SocketAddrV6_as_abi(self) ==
    [ip_addr |-> Ipv6Addr_as_abi(self.ip), port |-> self.port,
     flowinfo |-> self.flowinfo, scope_id |-> self.scope_id]
SocketAddr_as_abi(self) ==
    IF self.tag = "V4" THEN V4(SocketAddrV4_as_abi(self.v))
                       ELSE V6(SocketAddrV6_as_abi(self.v))
Shutdown_as_abi(self) ==
    CASE self = "Read"  -> "abi::Read"
      [] self = "Write" -> "abi::Write"
      [] self = "Both"  -> "abi::Both"

\* ---- the value sets the conversions are applied to
AbiIpv4s == [a : U8s, b : U8s, c : U8s, d : U8s]
AbiIpv6s == [a : U16s, b : U16s, c : U16s, d : U16s,
             e : U16s, f : U16s, g : U16s, h : U16s]
AbiSocketAddrV4s == [ip_addr : AbiIpv4s, port : U16s]
AbiSocketAddrV6s == [ip_addr : AbiIpv6s, port : U16s, flowinfo : U32s, scope_id : U32s]

StdIpv4s == {Ipv4Addr_new(a, b, c, d) : a \in U8s, b \in U8s, c \in U8s, d \in U8s}
StdIpv6s == {Ipv6Addr_new(s[1], s[2], s[3], s[4], s[5], s[6], s[7], s[8]) :
                s \in [1..8 -> U16s]}
StdSocketAddrV4s == {SocketAddrV4_new(ip, p) : ip \in StdIpv4s, p \in U16s}
StdSocketAddrV6s == {SocketAddrV6_new(ip, p, f, s) :
                        ip \in StdIpv6s, p \in U16s, f \in U32s, s \in U32s}

Tagged(A, B) == {V4(x) : x \in A} \cup {V6(x) : x \in B}

AbiKinds == {"Ipv4Addr", "Ipv6Addr", "IpAddr", "SocketAddrV4", "SocketAddrV6",
             "SocketAddr", "Shutdown"}

StdValues(kind) ==
    CASE kind = "Ipv4Addr"     -> StdIpv4s
      [] kind = "Ipv6Addr"     -> StdIpv6s
      [] kind = "IpAddr"       -> Tagged(StdIpv4s, StdIpv6s)
      [] kind = "SocketAddrV4" -> StdSocketAddrV4s
      [] kind = "SocketAddrV6" -> StdSocketAddrV6s
      [] kind = "SocketAddr"   -> Tagged(StdSocketAddrV4s, StdSocketAddrV6s)
      [] kind = "Shutdown"     -> {"Read", "Write", "Both"}

AbiValues(kind) ==
    CASE kind = "Ipv4Addr"     -> AbiIpv4s
      [] kind = "Ipv6Addr"     -> AbiIpv6s
      [] kind = "IpAddr"       -> Tagged(AbiIpv4s, AbiIpv6s)
      [] kind = "SocketAddrV4" -> AbiSocketAddrV4s
      [] kind = "SocketAddrV6" -> AbiSocketAddrV6s
      [] kind = "SocketAddr"   -> Tagged(AbiSocketAddrV4s, AbiSocketAddrV6s)
      [] kind = "Shutdown"     -> {"abi::Read", "abi::Write", "abi::Both"}

from_abi(kind, y) ==
    CASE kind = "Ipv4Addr"     -> Ipv4Addr_from_abi(y)
      [] kind = "Ipv6Addr"     -> Ipv6Addr_from_abi(y)
      [] kind = "IpAddr"       -> IpAddr_from_abi(y)
      [] kind = "SocketAddrV4" -> SocketAddrV4_from_abi(y)
      [] kind = "SocketAddrV6" -> SocketAddrV6_from_abi(y)
      [] kind = "SocketAddr"   -> SocketAddr_from_abi(y)
      [] kind = "Shutdown"     -> Shutdown_from_abi(y)

as_abi(kind, x) ==
    CASE kind = "Ipv4Addr"     -> Ipv4Addr_as_abi(x)
      [] kind = "Ipv6Addr"     -> Ipv6Addr_as_abi(x)
      [] kind = "IpAddr"       -> IpAddr_as_abi(x)
      [] kind = "SocketAddrV4" -> SocketAddrV4_as_abi(x)
      [] kind = "SocketAddrV6" -> SocketAddrV6_as_abi(x)
      [] kind = "SocketAddr"   -> SocketAddr_as_abi(x)
      [] kind = "Shutdown"     -> Shutdown_as_abi(x)

\* a conversion case: a value of one side, and the values the conversions
\* applied so far have made of it (at most there and back)
AbiInit ==
    abiCase \in UNION { {[kind |-> k, side |-> "std", vals |-> <<x>>] : x \in StdValues(k)}
                           \cup
                        {[kind |-> k, side |-> "abi", vals |-> <<y>>] : y \in AbiValues(k)}
                        : k \in AbiKinds }

AbiIdle == abiCase = [kind |-> "Shutdown", side |-> "std", vals |-> <<"Read">>]

\* which side the latest value of the case is on
CurSide == IF (abiCase.side = "std") = (Len(abiCase.vals) % 2 = 1) THEN "std" ELSE "abi"
Last(q) == q[Len(q)]

\* apply as_abi to a portable value
ApplyAsAbi ==
    /\ Len(abiCase.vals) < 3 /\ CurSide = "std"
    /\ abiCase' = [abiCase EXCEPT !.vals = Append(@, as_abi(abiCase.kind, Last(@)))]
    /\ UNCHANGED notAbi

\* apply from_abi to a native value
ApplyFromAbi ==
    /\ Len(abiCase.vals) < 3 /\ CurSide = "abi"
    /\ abiCase' = [abiCase EXCEPT !.vals = Append(@, from_abi(abiCase.kind, Last(@)))]
    /\ UNCHANGED notAbi

AbiNext == ApplyAsAbi \/ ApplyFromAbi

-----------------------------------------------------------------------------
(***************************************************************************)
(* fs.rs: ReadDir::next over the native directory stream                   *)
(***************************************************************************)

\* hermit_abi directory-entry type tags, imported at fs.rs:16
DT_DIR == 4
DT_REG == 8

\* bounds: records in a directory, next() calls in one behaviour
MaxDirRecords == 3
MaxNextCalls  == 5

\* Native dirent records.  d_name is a buffer that is not null-terminated and
\* may be longer than the name: the name is its first d_namelen bytes.
DotDirents ==
    { [d_name |-> <<".", ".">>, d_namelen |-> 1, d_ino |-> 1, d_type |-> DT_DIR],
      [d_name |-> <<".", ".">>, d_namelen |-> 2, d_ino |-> 1, d_type |-> DT_DIR],
      [d_name |-> <<".", "a">>, d_namelen |-> 1, d_ino |-> 1, d_type |-> DT_DIR] }
PlainDirents ==
    { [d_name |-> b, d_namelen |-> n, d_ino |-> it[1], d_type |-> it[2]] :
        b \in {<<".", "a">>, <<"a", ".">>}, n \in {1, 2},
        it \in {<<1, DT_DIR>>, <<2, DT_REG>>} }
      \ { [d_name |-> <<".", "a">>, d_namelen |-> 1, d_ino |-> it[1], d_type |-> it[2]] :
            it \in {<<1, DT_DIR>>, <<2, DT_REG>>} }
Dirents == DotDirents \cup PlainDirents

SeqsUpTo(S, n) == UNION {[1..k -> S] : k \in 0..n}

None    == [some |-> FALSE]
Some(v) == [some |-> TRUE, v |-> v]

\* core::slice::from_raw_parts(d_name, d_namelen).to_vec()
name_bytes(ent) == SubSeq(ent.d_name, 1, ent.d_namelen)

\* mutant: only "." is skipped
is_dot_single(ent) == name_bytes(ent) = <<".">>

\* name_bytes == b"." || name_bytes == b".."
is_dot(ent) == name_bytes(ent) = <<".">> \/ name_bytes(ent) = <<".", ".">>

\* DirEntry { entry: dirent_min { d_ino, d_type }, name }
DirEntry(ent) ==
    [name |-> name_bytes(ent), d_ino |-> ent.d_ino, d_type |-> ent.d_type]

\* what os::errno() reads after the native readdir returned null
errno_after_null(failed, code, before) == IF failed THEN code ELSE before

\* The loop of ReadDir::next (fs.rs:194-257) from cursor position pos, when the
\* native readdir fails at its failAt-th call of this next() (0: it never
\* fails); n counts the native calls made so far.  Returns the cursor, the
\* end_of_stream flag, errno and the value next() returns.
RECURSIVE next_loop(_, _, _, _, _)
next_loop(dir, pos, n, failAt, e0) ==
    IF n + 1 = failAt \/ pos = Len(dir)
    THEN \* entry_ptr.is_null()
         LET failed == (n + 1 = failAt)
             e      == errno_after_null(failed, 5, e0)
         IN  [pos |-> pos, eos |-> TRUE, errno |-> e,
              cause |-> IF failed THEN "fail" ELSE "end",
              ret |-> IF e = 0 THEN None ELSE Some(OsError(e))]
    ELSE LET ent == dir[pos + 1] IN
         IF is_dot(ent)
         THEN next_loop(dir, pos + 1, n + 1, failAt, e0)
         ELSE [pos |-> pos + 1, eos |-> FALSE, errno |-> e0, cause |-> "record",
               ret |-> Some(Ok(DirEntry(ent)))]

\* mutant: the end_of_stream flag is not consulted
ReadDir_next_noflag(r, failAt, e0) == next_loop(r.dir, r.pos, 0, failAt, e0)

\* ReadDir::next (fs.rs:188-259)
ReadDir_next(r, failAt, e0) ==
    IF r.end_of_stream
    THEN [pos |-> r.pos, eos |-> TRUE, errno |-> e0, cause |-> "flag", ret |-> None]
    ELSE next_loop(r.dir, r.pos, 0, failAt, e0)

DirInit ==
    /\ rd \in {[dir |-> d, pos |-> 0, end_of_stream |-> FALSE] :
                 d \in SeqsUpTo(Dirents, MaxDirRecords)}
    /\ errno = 0
    /\ yielded = <<>>
    /\ nextLog = <<>>

Next_call ==
    /\ Len(nextLog) < MaxNextCalls
    /\ \E failAt \in 0..(Len(rd.dir) - rd.pos + 1) :
         LET out == ReadDir_next(rd, failAt, errno) IN
         /\ rd' = [rd EXCEPT !.pos = out.pos, !.end_of_stream = out.eos]
         /\ errno' = out.errno
         /\ nextLog' = Append(nextLog, [ret |-> out.ret, cause |-> out.cause,
                                        errno0 |-> errno])
         /\ yielded' = IF out.ret.some /\ out.ret.v.ok
                       THEN Append(yielded, out.ret.v.val) ELSE yielded
    /\ UNCHANGED notDir

\* an unrelated native operation fails and leaves its error code in errno
UnrelatedFailure ==
    /\ errno = 0
    /\ errno' = 2
    /\ UNCHANGED <<rd, yielded, nextLog, notDir>>

DirNext == Next_call \/ UnrelatedFailure

-----------------------------------------------------------------------------
(***************************************************************************)
(* io.rs: the error bridge                                                 *)
(***************************************************************************)

\* mutant: InUse is taken for AddrInUse, and there is no catch-all arm for
\* NotListening
ErrorKind_from_abi_inuse(kind) ==
    CASE kind = "abi::AlreadyExists"     -> "AlreadyExists"
      [] kind = "abi::NotSocket"         -> "InvalidInput"
      [] kind = "abi::NotFound"          -> "NotFound"
      [] kind = "abi::NotListening"      -> "NotListening"
      [] kind = "abi::InUse"             -> "AddrInUse"
      [] kind = "abi::ConnectionRefused" -> "ConnectionRefused"
      [] kind = "abi::ConnectionReset"   -> "ConnectionReset"
      [] kind = "abi::NotConnected"      -> "NotConnected"
      [] kind = "abi::AddrInUse"         -> "AddrInUse"
      [] kind = "abi::AddrNotAvailable"  -> "AddrNotAvailable"
      [] kind = "abi::WouldBlock"        -> "WouldBlock"
      [] kind = "abi::InvalidInput"      -> "InvalidInput"
      [] kind = "abi::InvalidData"       -> "InvalidData"
      [] kind = "abi::TimedOut"          -> "TimedOut"
      [] kind = "abi::WriteZero"         -> "WriteZero"
      [] kind = "abi::Other"             -> "Other"
      [] kind = "abi::Unsupported"       -> "Unsupported"
      [] OTHER                           -> "Other"

\* FromAbi for ErrorKind (io.rs:230-253)
ErrorKind_from_abi(kind) ==
    CASE kind = "abi::AlreadyExists"     -> "AlreadyExists"
      [] kind = "abi::NotSocket"         -> "InvalidInput"
      [] kind = "abi::NotFound"          -> "NotFound"
      [] kind = "abi::NotListening"      -> "InvalidData"
      [] kind = "abi::InUse"             -> "InvalidData"
      [] kind = "abi::ConnectionRefused" -> "ConnectionRefused"
      [] kind = "abi::ConnectionReset"   -> "ConnectionReset"
      [] kind = "abi::NotConnected"      -> "NotConnected"
      [] kind = "abi::AddrInUse"         -> "AddrInUse"
      [] kind = "abi::AddrNotAvailable"  -> "AddrNotAvailable"
      [] kind = "abi::WouldBlock"        -> "WouldBlock"
      [] kind = "abi::InvalidInput"      -> "InvalidInput"
      [] kind = "abi::InvalidData"       -> "InvalidData"
      [] kind = "abi::TimedOut"          -> "TimedOut"
      [] kind = "abi::WriteZero"         -> "WriteZero"
      [] kind = "abi::Other"             -> "Other"
      [] kind = "abi::Unsupported"       -> "Unsupported"
      [] OTHER                           -> "Other"

\* FromAbi for Error (io.rs:255-257)
Error_from_abi(err) == Err(ErrorKind_from_abi(err.kind), err.msg)

-----------------------------------------------------------------------------
(***************************************************************************)
(* net.rs: Socket, TcpStream, TcpListener, UdpSocket                       *)
(***************************************************************************)

\* bounds: native sockets the stack hands out, clones of one Arc<Socket>,
\* open sockets that no handle owns
MaxSockets == 3
MaxClones  == 2
MaxLeaks   == 1

\* TcpListener::bind: tcp_listen(socket, 16)
Backlog == 16

\* native errors a failing call may report
NativeErrs == { [kind |-> "abi::NotSocket", msg |-> "not a socket"] }

\* Option<Duration> values
Durations == {None, Some(5)}

Loopback == Ipv4Addr_new(127, 0, 0, 1)
\* addresses the program binds listeners to and connects to
TargetAddrs == { V4(SocketAddrV4_new(Loopback, 80)), V4(SocketAddrV4_new(Loopback, 81)) }

\* abi::net::SocketAddrV4::UNSPECIFIED
UNSPECIFIED == [ip_addr |-> [a |-> 0, b |-> 0, c |-> 0, d |-> 0], port |-> 0]

NoAddr == [tag |-> "none"]

\* the local address the stack gives socket s when it is bound to the wildcard
EphemeralAddr(s) == V4([ip_addr |-> Ipv4Addr_as_abi(Loopback), port |-> 49151 + s])

\* a socket as abi::net::socket() returns it (closes and lastSet are history:
\* the socket_close calls made for it, the last timeout successfully set)
NewSocket ==
    [open |-> TRUE, closes |-> 0, timeout |-> None, lastSet |-> [set |-> FALSE],
     local |-> NoAddr, remote |-> NoAddr, listening |-> FALSE, backlog |-> 0,
     connectedTo |-> 0, peer |-> 0]

SockIds == 1..Len(socks)
ArcIds  == 1..Len(arcs)

\* ---- the native calls, as state transformers on the socket table
native_socket(tbl)             == Append(tbl, NewSocket)
\* (the stack frees a closed socket: its settings, addresses and connection go)
native_close(tbl, s)           ==
    [tbl EXCEPT ![s] = [NewSocket EXCEPT !.open = FALSE, !.closes = tbl[s].closes + 1]]
native_set_timeout(tbl, s, d)  == [tbl EXCEPT ![s].timeout = d]
native_timeout(tbl, s)         == tbl[s].timeout
native_bind(tbl, s, a)         ==
    [tbl EXCEPT ![s].local = IF a = V4(UNSPECIFIED) THEN EphemeralAddr(s) ELSE a]
native_listen(tbl, s, n)       == [tbl EXCEPT ![s].listening = TRUE, ![s].backlog = n]
native_connect(tbl, s, a, l)   == [tbl EXCEPT ![s].remote = a, ![s].connectedTo = l]
native_local_addr(tbl, s)      == tbl[s].local
native_remote_addr(tbl, s)     == tbl[s].remote
\* the stack's new socket for the connection of client c, accepted on listener l
native_accept(tbl, l, c)       ==
    LET n == Len(tbl) + 1 IN
    [Append(tbl, [NewSocket EXCEPT !.local = tbl[l].local, !.remote = tbl[c].local,
                                   !.peer = c])
        EXCEPT ![c].peer = n]

\* open listening sockets bound to native address a
ListenersAt(tbl, a) ==
    {l \in 1..Len(tbl) : tbl[l].open /\ tbl[l].listening /\ tbl[l].local = a}
AddrInUse(tbl, a) == \E l \in 1..Len(tbl) : tbl[l].open /\ tbl[l].local = a
\* connections made to listener l that no accept has taken yet
Pending(tbl, l) == {c \in 1..Len(tbl) : tbl[c].connectedTo = l /\ tbl[c].peer = 0}

Call(f, s, arg) == [f |-> f, sock |-> s, arg |-> arg]
Ret(op, arc, calls, res) == [op |-> op, arc |-> arc, calls |-> calls, res |-> res]
\* the record of a connect / bind: also the address it was given and what the
\* native layer did (the call that failed, if any, and its error)
RetOf(op, arc, calls, res, arg, fail, err) ==
    [op |-> op, arc |-> arc, calls |-> calls, res |-> res,
     arg |-> arg, fail |-> fail, err |-> err]

\* TcpStream::from_socket / TcpListener::from_socket: Arc::new(Socket(socket))
from_socket(kind, s) == [kind |-> kind, sock |-> s, strong |-> 1]

Live(a) == a \in ArcIds /\ arcs[a].strong > 0

\* open native sockets that no TcpStream / TcpListener was made for
Leaked == {s \in SockIds : socks[s].open /\ \A a \in ArcIds : arcs[a].sock # s}

NetInit ==
    /\ socks = <<>>
    /\ arcs = <<>>
    /\ netRet = [op |-> "none"]

\* no socket has left the layer through into_socket
OwnInit == handedOut = [out |-> {}, panicked |-> {}]

NoErr == [kind |-> "none"]
NativeOutcomes == NativeErrs \cup {NoErr}

\* TcpStream::connect (net.rs:78-91).  fail names the first native call that
\* fails with err ("none": all succeed); l is the listener the stack connects to.
TcpStream_connect(tbl, addr, fail, err, l) ==
    IF ~addr.ok THEN [tbl |-> tbl, calls |-> <<>>, res |-> addr]
    ELSE
    LET s  == Len(tbl) + 1
        c1 == <<Call("socket", 0, 0)>>
        c2 == Append(c1, Call("tcp_bind", s, V4(UNSPECIFIED)))
        c3 == Append(c2, Call("tcp_connect", s, SocketAddr_as_abi(addr.val)))
        t1 == native_socket(tbl)
        t2 == native_bind(t1, s, V4(UNSPECIFIED))
        t3 == native_connect(t2, s, SocketAddr_as_abi(addr.val), l)
    IN  CASE fail = "socket"      -> [tbl |-> tbl, calls |-> c1, res |-> Error_from_abi(err)]
          [] fail = "tcp_bind"    -> [tbl |-> t1,  calls |-> c2, res |-> Error_from_abi(err)]
          [] fail = "tcp_connect" -> [tbl |-> t2,  calls |-> c3, res |-> Error_from_abi(err)]
          [] fail = "none"        -> [tbl |-> t3,  calls |-> c3, res |-> Ok(s)]

\* the Duration argument of connect_timeout
ConnectDurations == {5, 9}

\* mutant: the timeout is installed after the bind
TcpStream_connect_timeout_late(tbl, saddr, d, fail, err, l) ==
    LET s  == Len(tbl) + 1
        c1 == <<Call("socket", 0, 0)>>
        c2 == Append(c1, Call("tcp_bind", s, V4(UNSPECIFIED)))
        c3 == Append(c2, Call("socket_set_timeout", s, Some(d)))
        c4 == Append(c3, Call("tcp_connect", s, SocketAddr_as_abi(saddr)))
        t1 == native_socket(tbl)
        t2 == native_bind(t1, s, V4(UNSPECIFIED))
        t3 == native_set_timeout(t2, s, Some(d))
        t4 == native_connect(t3, s, SocketAddr_as_abi(saddr), l)
    IN  CASE fail = "socket"             -> [tbl |-> tbl, calls |-> c1, res |-> Error_from_abi(err)]
          [] fail = "tcp_bind"           -> [tbl |-> t1,  calls |-> c2, res |-> Error_from_abi(err)]
          [] fail = "socket_set_timeout" -> [tbl |-> t2,  calls |-> c3, res |-> Error_from_abi(err)]
          [] fail = "tcp_connect"        -> [tbl |-> t3,  calls |-> c4, res |-> Error_from_abi(err)]
          [] fail = "none"               -> [tbl |-> t4,  calls |-> c4, res |-> Ok(s)]

\* TcpStream::connect_timeout (net.rs:93-107)
TcpStream_connect_timeout(tbl, saddr, d, fail, err, l) ==
    LET s  == Len(tbl) + 1
        c1 == <<Call("socket", 0, 0)>>
        c2 == Append(c1, Call("socket_set_timeout", s, Some(d)))
        c3 == Append(c2, Call("tcp_bind", s, V4(UNSPECIFIED)))
        c4 == Append(c3, Call("tcp_connect", s, SocketAddr_as_abi(saddr)))
        t1 == native_socket(tbl)
        t2 == native_set_timeout(t1, s, Some(d))
        t3 == native_bind(t2, s, V4(UNSPECIFIED))
        t4 == native_connect(t3, s, SocketAddr_as_abi(saddr), l)
    IN  CASE fail = "socket"             -> [tbl |-> tbl, calls |-> c1, res |-> Error_from_abi(err)]
          [] fail = "socket_set_timeout" -> [tbl |-> t1,  calls |-> c2, res |-> Error_from_abi(err)]
          [] fail = "tcp_bind"           -> [tbl |-> t2,  calls |-> c3, res |-> Error_from_abi(err)]
          [] fail = "tcp_connect"        -> [tbl |-> t3,  calls |-> c4, res |-> Error_from_abi(err)]
          [] fail = "none"               -> [tbl |-> t4,  calls |-> c4, res |-> Ok(s)]

\* mutant: the backlog is taken from the port
TcpListener_bind_portbacklog(tbl, addr, fail, err) ==
    IF ~addr.ok THEN [tbl |-> tbl, calls |-> <<>>, res |-> addr]
    ELSE
    LET s  == Len(tbl) + 1
        n  == IF SocketAddr_as_abi(addr.val).v.port = 80 THEN Backlog ELSE 128
        c1 == <<Call("socket", 0, 0)>>
        c2 == Append(c1, Call("tcp_bind", s, SocketAddr_as_abi(addr.val)))
        c3 == Append(c2, Call("tcp_listen", s, n))
        t1 == native_socket(tbl)
        t2 == native_bind(t1, s, SocketAddr_as_abi(addr.val))
        t3 == native_listen(t2, s, n)
    IN  CASE fail = "socket"     -> [tbl |-> tbl, calls |-> c1, res |-> Error_from_abi(err)]
          [] fail = "tcp_bind"   -> [tbl |-> t1,  calls |-> c2, res |-> Error_from_abi(err)]
          [] fail = "tcp_listen" -> [tbl |-> t2,  calls |-> c3, res |-> Error_from_abi(err)]
          [] fail = "none"       -> [tbl |-> t3,  calls |-> c3, res |-> Ok(s)]

\* TcpListener::bind (net.rs:251-264)
TcpListener_bind(tbl, addr, fail, err) ==
    IF ~addr.ok THEN [tbl |-> tbl, calls |-> <<>>, res |-> addr]
    ELSE
    LET s  == Len(tbl) + 1
        c1 == <<Call("socket", 0, 0)>>
        c2 == Append(c1, Call("tcp_bind", s, SocketAddr_as_abi(addr.val)))
        c3 == Append(c2, Call("tcp_listen", s, Backlog))
        t1 == native_socket(tbl)
        t2 == native_bind(t1, s, SocketAddr_as_abi(addr.val))
        t3 == native_listen(t2, s, Backlog)
    IN  CASE fail = "socket"     -> [tbl |-> tbl, calls |-> c1, res |-> Error_from_abi(err)]
          [] fail = "tcp_bind"   -> [tbl |-> t1,  calls |-> c2, res |-> Error_from_abi(err)]
          [] fail = "tcp_listen" -> [tbl |-> t2,  calls |-> c3, res |-> Error_from_abi(err)]
          [] fail = "none"       -> [tbl |-> t3,  calls |-> c3, res |-> Ok(s)]

\* TcpStream::socket_addr (net.rs:178-182) and peer_addr (net.rs:172-176)
TcpStream_socket_addr(tbl, s, e) ==
    IF e = NoErr THEN Ok(SocketAddr_from_abi(native_local_addr(tbl, s)))
                 ELSE Error_from_abi(e)
TcpStream_peer_addr(tbl, s, e) ==
    IF e = NoErr THEN Ok(SocketAddr_from_abi(native_remote_addr(tbl, s)))
                 ELSE Error_from_abi(e)

\* TcpListener::accept (net.rs:272-279) on listener socket l, the stack
\* handing over the connection of client c.  The stream made by from_socket is
\* dropped again (strong 0, socket closed) when socket_addr() fails.
TcpListener_accept(tbl, l, c, fail, err) ==
    LET s      == Len(tbl) + 1
        c1     == <<Call("tcp_accept", l, 0)>>
        c2     == Append(c1, Call("tcp_local_addr", s, 0))
        t1     == native_accept(tbl, l, c)
        remote == TcpStream_socket_addr(t1, s, IF fail = "tcp_local_addr" THEN err ELSE NoErr)
    IN  CASE fail = "tcp_accept" ->
               [tbl |-> tbl, calls |-> c1, arc |-> None, res |-> Error_from_abi(err)]
          [] fail = "tcp_local_addr" ->
               [tbl |-> native_close(t1, s), calls |-> Append(c2, Call("socket_close", s, 0)),
                arc |-> Some([from_socket("stream", s) EXCEPT !.strong = 0]),
                res |-> remote]
          [] fail = "none" ->
               [tbl |-> t1, calls |-> c2, arc |-> Some(from_socket("stream", s)),
                res |-> Ok([stream |-> s, addr |-> remote.val])]

\* TcpStream::set_read_timeout / set_write_timeout (net.rs:109-117)
TcpStream_set_read_timeout(tbl, s, d, e) ==
    IF e = NoErr THEN [tbl |-> native_set_timeout(tbl, s, d), res |-> Ok(0)]
                 ELSE [tbl |-> tbl, res |-> Error_from_abi(e)]
\* mutant: the write timeout is accepted and not installed
TcpStream_set_write_timeout_noop(tbl, s, d, e) ==
    IF e = NoErr THEN [tbl |-> tbl, res |-> Ok(0)]
                 ELSE [tbl |-> tbl, res |-> Error_from_abi(e)]

TcpStream_set_write_timeout(tbl, s, d, e) ==
    IF e = NoErr THEN [tbl |-> native_set_timeout(tbl, s, d), res |-> Ok(0)]
                 ELSE [tbl |-> tbl, res |-> Error_from_abi(e)]

\* TcpStream::read_timeout / write_timeout (net.rs:119-127)
TcpStream_read_timeout(tbl, s, e) ==
    IF e = NoErr THEN Ok(native_timeout(tbl, s)) ELSE Error_from_abi(e)
TcpStream_write_timeout(tbl, s, e) ==
    IF e = NoErr THEN Ok(native_timeout(tbl, s)) ELSE Error_from_abi(e)

\* the addr argument of connect / bind: io::Result<&SocketAddr>
AddrArgs == {Ok(a) : a \in TargetAddrs} \cup {Err("InvalidInput", "could not resolve")}

FailErrs(fail) == IF fail = "none" THEN {NoErr} ELSE NativeErrs

\* Drop for Socket (net.rs:49-53): socket_close, its result ignored
Socket_drop(tbl, s) == native_close(tbl, s)

\* mutant: every handle owns the Socket and closes it when dropped
Arc_drop_owning(tbl, arc) ==
    [arc   |-> [arc EXCEPT !.strong = @ - 1],
     tbl   |-> Socket_drop(tbl, arc.sock),
     calls |-> <<Call("socket_close", arc.sock, 0)>>]

\* dropping one TcpStream / TcpListener: the Arc<Socket> (net.rs:55-59, 231-232)
\* gives up one strong reference and drops the Socket with the last one
Arc_drop(tbl, arc) ==
    LET n == arc.strong - 1 IN
    [arc   |-> [arc EXCEPT !.strong = n],
     tbl   |-> IF n = 0 THEN Socket_drop(tbl, arc.sock) ELSE tbl,
     calls |-> IF n = 0 THEN <<Call("socket_close", arc.sock, 0)>> ELSE <<>>]

\* TcpStream::duplicate / TcpListener::duplicate (net.rs:189-191, 281-283):
\* Ok(self.clone()), one more strong reference to the same Socket
Arc_clone(arc) == [arc EXCEPT !.strong = @ + 1]

\* mutant: into_inner lets the Socket drop instead of forgetting it
into_socket_dropping(tbl, arc) ==
    IF arc.strong = 1
    THEN [arc |-> [arc EXCEPT !.strong = 0], tbl |-> Socket_drop(tbl, arc.sock),
          calls |-> <<Call("socket_close", arc.sock, 0)>>, res |-> Ok(arc.sock)]
    ELSE [arc |-> [arc EXCEPT !.strong = @ - 1], tbl |-> tbl, calls |-> <<>>,
          res |-> Panic("called Result::unwrap() on an Err value")]

\* TcpStream::into_socket / TcpListener::into_socket (net.rs:72-76, 245-249):
\* Arc::try_unwrap(self.0).unwrap().into_inner().  try_unwrap gives the Socket
\* when self is the only strong reference, and into_inner (net.rs:41-47)
\* forgets it, so Drop for Socket does not run.  Otherwise try_unwrap gives
\* the Arc back in an Err, unwrap panics and the unwinding drops that Arc.
into_socket(tbl, arc) ==
    IF arc.strong = 1
    THEN [arc |-> [arc EXCEPT !.strong = 0], tbl |-> tbl, calls |-> <<>>,
          res |-> Ok(arc.sock)]
    ELSE [arc |-> [arc EXCEPT !.strong = @ - 1], tbl |-> tbl, calls |-> <<>>,
          res |-> Panic("called Result::unwrap() on an Err value")]

Connect ==
    \E addr \in AddrArgs, fail \in {"socket", "tcp_bind", "tcp_connect", "none"} :
    \E err \in FailErrs(fail) :
        /\ (addr.ok /\ fail # "socket") => Len(socks) < MaxSockets
        /\ (addr.ok /\ fail = "none") => ListenersAt(socks, SocketAddr_as_abi(addr.val)) # {}
        /\ (addr.ok /\ fail \in {"tcp_bind", "tcp_connect"}) => Cardinality(Leaked) < MaxLeaks
        /\ LET l   == IF addr.ok /\ fail = "none"
                      THEN CHOOSE x \in ListenersAt(socks, SocketAddr_as_abi(addr.val)) : TRUE
                      ELSE 0
               out == TcpStream_connect(socks, addr, fail, err, l)
           IN  /\ socks' = out.tbl
               /\ arcs' = IF out.res.ok
                          THEN Append(arcs, from_socket("stream", out.res.val)) ELSE arcs
               /\ netRet' = RetOf("connect", IF out.res.ok THEN Len(arcs) + 1 ELSE 0,
                                  out.calls, out.res, addr, fail, err)
        /\ UNCHANGED notNet

Bind ==
    \E addr \in AddrArgs, fail \in {"socket", "tcp_bind", "tcp_listen", "none"} :
    \E err \in FailErrs(fail) :
        /\ (addr.ok /\ fail # "socket") => Len(socks) < MaxSockets
        /\ (addr.ok /\ fail \in {"tcp_listen", "none"})
              => ~AddrInUse(socks, SocketAddr_as_abi(addr.val))
        /\ (addr.ok /\ fail \in {"tcp_bind", "tcp_listen"}) => Cardinality(Leaked) < MaxLeaks
        /\ LET out == TcpListener_bind(socks, addr, fail, err)
           IN  /\ socks' = out.tbl
               /\ arcs' = IF out.res.ok
                          THEN Append(arcs, from_socket("listener", out.res.val)) ELSE arcs
               /\ netRet' = RetOf("bind", IF out.res.ok THEN Len(arcs) + 1 ELSE 0,
                                  out.calls, out.res, addr, fail, err)
        /\ UNCHANGED notNet

Accept(a) ==
    /\ Live(a) /\ arcs[a].kind = "listener"
    /\ \E fail \in {"tcp_accept", "tcp_local_addr", "none"} : \E err \in FailErrs(fail) :
       \E c \in IF fail = "tcp_accept" THEN {0} ELSE Pending(socks, arcs[a].sock) :
        /\ fail # "tcp_accept" => Len(socks) < MaxSockets
        /\ LET out == TcpListener_accept(socks, arcs[a].sock, c, fail, err)
           IN  /\ socks' = out.tbl
               /\ arcs' = IF out.arc.some THEN Append(arcs, out.arc.v) ELSE arcs
               /\ netRet' = Ret("accept", a, out.calls, out.res)
        /\ UNCHANGED notNet

Duplicate(a) ==
    /\ Live(a) /\ arcs[a].strong < MaxClones
    /\ arcs' = [arcs EXCEPT ![a] = Arc_clone(arcs[a])]
    /\ netRet' = Ret("duplicate", a, <<>>, Ok(0))
    /\ UNCHANGED <<socks, notNet>>

Drop(a) ==
    /\ Live(a)
    /\ LET out == Arc_drop(socks, arcs[a])
       IN  /\ arcs' = [arcs EXCEPT ![a] = out.arc]
           /\ socks' = out.tbl
           /\ netRet' = Ret("drop", a, out.calls, Ok(0))
    /\ UNCHANGED notNet

SetReadTimeout(a) ==
    /\ Live(a) /\ arcs[a].kind = "stream"
    /\ \E d \in Durations, e \in NativeOutcomes :
         LET s   == arcs[a].sock
             out == TcpStream_set_read_timeout(socks, s, d, e)
         IN  /\ socks' = IF out.res.ok THEN [out.tbl EXCEPT ![s].lastSet = [set |-> TRUE, d |-> d]]
                                         ELSE out.tbl
             /\ netRet' = Ret("set_read_timeout", a, <<Call("socket_set_timeout", s, d)>>, out.res)
    /\ UNCHANGED <<arcs, notNet>>

SetWriteTimeout(a) ==
    /\ Live(a) /\ arcs[a].kind = "stream"
    /\ \E d \in Durations, e \in NativeOutcomes :
         LET s   == arcs[a].sock
             out == TcpStream_set_write_timeout(socks, s, d, e)
         IN  /\ socks' = IF out.res.ok THEN [out.tbl EXCEPT ![s].lastSet = [set |-> TRUE, d |-> d]]
                                         ELSE out.tbl
             /\ netRet' = Ret("set_write_timeout", a, <<Call("socket_set_timeout", s, d)>>, out.res)
    /\ UNCHANGED <<arcs, notNet>>

ConnectTimeout ==
    \E saddr \in TargetAddrs, d \in ConnectDurations,
       fail \in {"socket", "socket_set_timeout", "tcp_bind", "tcp_connect", "none"} :
    \E err \in FailErrs(fail) :
        /\ fail # "socket" => Len(socks) < MaxSockets
        /\ fail = "none" => ListenersAt(socks, SocketAddr_as_abi(saddr)) # {}
        /\ fail \in {"socket_set_timeout", "tcp_bind", "tcp_connect"}
              => Cardinality(Leaked) < MaxLeaks
        /\ LET l   == IF fail = "none"
                      THEN CHOOSE x \in ListenersAt(socks, SocketAddr_as_abi(saddr)) : TRUE
                      ELSE 0
               out == TcpStream_connect_timeout(socks, saddr, d, fail, err, l)
           IN  /\ socks' = out.tbl
               /\ arcs' = IF out.res.ok
                          THEN Append(arcs, from_socket("stream", out.res.val)) ELSE arcs
               /\ netRet' = RetOf("connect_timeout", IF out.res.ok THEN Len(arcs) + 1 ELSE 0,
                                  out.calls, out.res, [addr |-> saddr, d |-> d], fail, err)
        /\ UNCHANGED notNet

IntoSocket(a) ==
    /\ Live(a)
    /\ LET out == into_socket(socks, arcs[a])
       IN  /\ arcs' = [arcs EXCEPT ![a] = out.arc]
           /\ socks' = out.tbl
           /\ netRet' = Ret("into_socket", a, out.calls, out.res)
           /\ handedOut' = IF out.res.ok
                            THEN [handedOut EXCEPT !.out = @ \cup {out.res.val}]
                            ELSE [handedOut EXCEPT !.panicked = @ \cup {a}]
    /\ UNCHANGED notOwn

\* sockets made by connect, connect_timeout and bind, and dropped
LifeNext ==
    \/ Connect
    \/ ConnectTimeout
    \/ Bind
    \/ \E a \in ArcIds : Drop(a)

\* a handle shared by duplicate and given up by drop or into_socket
OwnNext ==
    \/ \E a \in ArcIds : Duplicate(a)
    \/ \E a \in ArcIds : Drop(a)
    \/ \E a \in ArcIds : IntoSocket(a)

NetNext ==
    \/ Connect
    \/ Bind
    \/ \E a \in ArcIds : Accept(a)
    \/ \E a \in ArcIds : Duplicate(a)
    \/ \E a \in ArcIds : Drop(a)

\* A listener bound to a target address and a stream connected to it: the
\* state after TcpListener::bind and TcpStream::connect have both succeeded.
ConnectedInit ==
    \E addr \in TargetAddrs :
        LET b == TcpListener_bind(<<>>, Ok(addr), "none", NoErr)
            c == TcpStream_connect(b.tbl, Ok(addr), "none", NoErr, b.res.val)
        IN  /\ socks = c.tbl
            /\ arcs = <<from_socket("listener", b.res.val), from_socket("stream", c.res.val)>>
            /\ netRet = RetOf("connect", 2, c.calls, c.res, Ok(addr), "none", NoErr)

\* a stream, its clones and their timeouts
TimeoutNext ==
    \/ \E a \in ArcIds : Duplicate(a)
    \/ \E a \in ArcIds : Drop(a)
    \/ \E a \in ArcIds : SetReadTimeout(a)
    \/ \E a \in ArcIds : SetWriteTimeout(a)

-----------------------------------------------------------------------------
(***************************************************************************)
(* net.rs: UdpSocket (net.rs:317-443)                                      *)
(***************************************************************************)

UdpOps ==
    {"bind", "peer_addr", "socket_addr", "recv_from", "peek_from", "send_to",
     "duplicate", "set_read_timeout", "set_write_timeout", "read_timeout",
     "write_timeout", "set_broadcast", "broadcast", "set_multicast_loop_v4",
     "multicast_loop_v4", "set_multicast_ttl_v4", "multicast_ttl_v4",
     "set_multicast_loop_v6", "multicast_loop_v6", "join_multicast_v4",
     "join_multicast_v6", "leave_multicast_v4", "leave_multicast_v6", "set_ttl",
     "ttl", "take_error", "set_nonblocking", "recv", "peek", "send", "connect"}

\* the methods that return a UdpSocket
UdpConstructors == {"bind", "duplicate"}

\* arguments: an address argument and a flag / option argument
UdpArgs == [addr : AddrArgs, flag : BOOLEAN]

\* mutant: bind creates a native socket for a resolved address
UdpSocket_call_bindworks(op, arg) ==
    IF op = "bind" /\ arg.addr.ok
    THEN [calls |-> <<Call("socket", 0, 0)>>, res |-> Ok(1)]
    ELSE [calls |-> <<>>, res |-> unsupported]

\* every method body is unsupported(): no native call, whatever the arguments
UdpSocket_call(op, arg) == [calls |-> <<>>, res |-> unsupported]

UdpInit == udpRet = [op |-> "none", sockets |-> 0]

\* Methods taking &self are applied to a hypothetical receiver: no UdpSocket
\* value exists unless a constructor has returned one (counted in sockets).
UdpCall ==
    \E op \in UdpOps, arg \in UdpArgs :
        LET out == UdpSocket_call(op, arg) IN
        /\ udpRet' = [op |-> op, arg |-> arg, calls |-> out.calls, res |-> out.res,
                   sockets |-> IF op \in UdpConstructors /\ out.res.ok
                               THEN 1 ELSE udpRet.sockets]
        /\ UNCHANGED notUdp

UdpNext == UdpCall

-----------------------------------------------------------------------------
(***************************************************************************)
(* The specifications                                                      *)
(***************************************************************************)

DirIdle ==
    /\ rd = [dir |-> <<>>, pos |-> 0, end_of_stream |-> FALSE]
    /\ errno = 0
    /\ yielded = <<>>
    /\ nextLog = <<>>

(***************************************************************************)
(* fs.rs: path operations and File methods without a native equivalent,    *)
(* net.rs: the TcpStream / TcpListener options without one                 *)
(***************************************************************************)

\* bound: native filesystem calls in one behaviour
MaxFsCalls == 2

\* Error::from_raw_os_error(22): the invalid-argument code
EINVAL == 22
\* the codes the native unlink / rmdir report: no such entry, not empty
ENOENT == 2
ENOTEMPTY == 39

\* Paths are sequences of components.  The native filesystem holds a
\* directory d with a file f in it and a file g; x does not exist.
FsPaths     == {<<"d">>, <<"d", "f">>, <<"g">>, <<"x">>}
FsDirs      == {<<"d">>}
InitialTree == {<<"d">>, <<"d", "f">>, <<"g">>}
Children(tree, p) ==
    {q \in tree : Len(q) = Len(p) + 1 /\ SubSeq(q, 1, Len(p)) = p}

\* the native unlink and rmdir: the new tree and the native result
native_unlink(tree, p) ==
    IF p \in tree /\ p \notin FsDirs THEN [tree |-> tree \ {p}, r |-> 0]
                                     ELSE [tree |-> tree, r |-> -ENOENT]
native_rmdir(tree, p) ==
    IF p \notin tree \/ p \notin FsDirs THEN [tree |-> tree, r |-> -ENOENT]
    ELSE IF Children(tree, p) # {} THEN [tree |-> tree, r |-> -ENOTEMPTY]
    ELSE [tree |-> tree \ {p}, r |-> 0]

\* unlink (fs.rs:522-524) and rmdir (fs.rs:534-536): cvt(native call).map(|_| ())
unlink(tree, p) ==
    LET n == native_unlink(tree, p) IN
    [tree |-> n.tree, calls |-> <<[f |-> "unlink", arg |-> p]>>,
     res |-> IF cvt(n.r).ok THEN Ok(0) ELSE cvt(n.r)]
rmdir(tree, p) ==
    LET n == native_rmdir(tree, p) IN
    [tree |-> n.tree, calls |-> <<[f |-> "rmdir", arg |-> p]>>,
     res |-> IF cvt(n.r).ok THEN Ok(0) ELSE cvt(n.r)]

\* the path functions whose body is unsupported() (fs.rs:526-565), and
\* DirBuilder::mkdir (fs.rs:458-460)
PathStubs ==
    {"rename", "readlink", "symlink", "link", "stat", "lstat", "canonicalize", "mkdir"}

\* mutant: stat and lstat ask the native layer and report a missing path
fs_unsupported_call_lookup(op, tree, p, q) ==
    IF op \in {"stat", "lstat"} /\ p \notin tree
    THEN [tree |-> tree, calls |-> <<[f |-> op, arg |-> p]>>,
          res |-> Err("NotFound", "entity not found")]
    ELSE [tree |-> tree, calls |-> <<>>, res |-> unsupported]

\* rename(_old, _new), readlink(_p), symlink(_original, _link),
\* link(_original, _link), stat(_p), lstat(_p), canonicalize(_p),
\* DirBuilder::mkdir(&self, _p): every argument is ignored
fs_unsupported_call(op, tree, p, q) ==
    [tree |-> tree, calls |-> <<>>, res |-> unsupported]

\* the File methods whose body is Err(Error::from_raw_os_error(22))
\* (fs.rs:390-450); datasync is self.fsync()
FileStubs ==
    {"seek", "duplicate", "fsync", "datasync", "truncate", "set_permissions", "set_times"}
File_fsync == OsError(EINVAL)
File_call(op, tree, fd, arg) ==
    [tree |-> tree, calls |-> <<>>,
     res |-> IF op = "datasync" THEN File_fsync ELSE OsError(EINVAL)]

\* File::file_attr (fs.rs:386-388)
File_file_attr(tree, fd) ==
    [tree |-> tree, calls |-> <<>>, res |-> OsError(EINVAL)]

\* DirEntry::metadata (fs.rs:271-273): unimplemented!()
DirEntry_metadata(tree, ent) ==
    [tree |-> tree, calls |-> <<>>, res |-> Panic("not implemented")]

\* mutant: the directory and everything under it is removed
remove_dir_all_recursive(tree, p) ==
    [tree |-> {q \in tree : ~(Len(q) >= Len(p) /\ SubSeq(q, 1, Len(p)) = p)},
     calls |-> <<[f |-> "rmdir", arg |-> p]>>,
     res |-> Ok(0)]

\* remove_dir_all (fs.rs:538-541): Ok(()), the path ignored
remove_dir_all(tree, p) ==
    [tree |-> tree, calls |-> <<>>, res |-> Ok(0)]

\* TcpStream::set_linger / linger / take_error (net.rs:193-199, 221-223) and
\* TcpListener::set_ttl / ttl / set_only_v6 / only_v6 / take_error
\* (net.rs:285-303): unsupported()
TcpStubs(kind) ==
    IF kind = "stream" THEN {"set_linger", "linger", "take_error"}
    ELSE {"set_ttl", "ttl", "set_only_v6", "only_v6", "take_error"}
Tcp_unsupported_call(op, tbl, s, arg) ==
    [tbl |-> tbl, calls |-> <<>>, res |-> unsupported]

PathInit ==
    /\ fsTree = InitialTree
    /\ fsCalls = 0
    /\ fsRet = [op |-> "none"]

\* the record of a path / File operation: what it was given, what it did and
\* the filesystem it was called on
FsRet(op, p, q, out) ==
    [op |-> op, p |-> p, q |-> q, calls |-> out.calls, res |-> out.res,
     before |-> fsTree]

FsApply(op, p, q, out) ==
    /\ fsCalls + Len(out.calls) <= MaxFsCalls
    /\ fsTree' = out.tree
    /\ fsCalls' = fsCalls + Len(out.calls)
    /\ fsRet' = FsRet(op, p, q, out)

Unlink ==
    /\ \E p \in FsPaths : FsApply("unlink", p, p, unlink(fsTree, p))
    /\ UNCHANGED <<netVars, notPath>>
Rmdir ==
    /\ \E p \in FsPaths : FsApply("rmdir", p, p, rmdir(fsTree, p))
    /\ UNCHANGED <<netVars, notPath>>
PathStub ==
    /\ \E op \in PathStubs, p \in FsPaths, q \in {<<"g">>, <<"x">>} :
         FsApply(op, p, q, fs_unsupported_call(op, fsTree, p, q))
    /\ UNCHANGED <<netVars, notPath>>
FileStub ==
    /\ \E op \in FileStubs, arg \in {0, 1} :
         FsApply(op, <<>>, <<>>, File_call(op, fsTree, 3, arg))
    /\ UNCHANGED <<netVars, notPath>>
FileAttr ==
    /\ FsApply("file_attr", <<>>, <<>>, File_file_attr(fsTree, 3))
    /\ UNCHANGED <<netVars, notPath>>
Metadata ==
    /\ \E p \in FsPaths : FsApply("metadata", p, p, DirEntry_metadata(fsTree, p))
    /\ UNCHANGED <<netVars, notPath>>
RemoveDirAll ==
    /\ \E p \in FsPaths : FsApply("remove_dir_all", p, p, remove_dir_all(fsTree, p))
    /\ UNCHANGED <<netVars, notPath>>
TcpStub(a) ==
    /\ Live(a)
    /\ \E op \in TcpStubs(arcs[a].kind), arg \in {0} :
         LET out == Tcp_unsupported_call(op, socks, arcs[a].sock, arg) IN
         /\ socks' = out.tbl
         /\ netRet' = [op |-> op, arc |-> a, calls |-> out.calls, res |-> out.res,
                       before |-> socks]
    /\ UNCHANGED <<arcs, pathVars, notPath>>

StubNext ==
    \/ Unlink
    \/ Rmdir
    \/ PathStub
    \/ FileStub
    \/ FileAttr
    \/ Metadata
    \/ RemoveDirAll
    \/ \E a \in ArcIds : TcpStub(a)

-----------------------------------------------------------------------------
(***************************************************************************)
(* io.rs: the error bridge applied to native errors; net.rs: init          *)
(***************************************************************************)

\* bound: init() calls in one behaviour
MaxInitCalls == 4

\* the native kinds the bridge names (io.rs:233-249) and kinds it does not know
NamedAbiKinds ==
    {"abi::AlreadyExists", "abi::NotSocket", "abi::NotFound", "abi::NotListening",
     "abi::InUse", "abi::ConnectionRefused", "abi::ConnectionReset",
     "abi::NotConnected", "abi::AddrInUse", "abi::AddrNotAvailable",
     "abi::WouldBlock", "abi::InvalidInput", "abi::InvalidData", "abi::TimedOut",
     "abi::WriteZero", "abi::Other", "abi::Unsupported"}
UnknownAbiKinds == {"abi::Unknown1", "abi::Unknown2"}
AbiErrorKinds == NamedAbiKinds \cup UnknownAbiKinds
AbiErrorMsgs == {"", "socket is not listening", "would block"}
\* abi::io::Error { kind, msg }
AbiErrors == [kind : AbiErrorKinds, msg : AbiErrorMsgs]

BridgeInit ==
    /\ errCase \in {[in |-> e, out |-> None] : e \in AbiErrors}
    /\ netStack = [up |-> FALSE, bringups |-> 0]
    /\ initLog = <<>>

BridgeIdle ==
    /\ errCase = [in |-> [kind |-> "abi::Other", msg |-> ""], out |-> None]
    /\ netStack = [up |-> FALSE, bringups |-> 0]
    /\ initLog = <<>>

\* io::Error::from_abi(err) at a call site
ErrorFromAbi ==
    /\ ~errCase.out.some
    /\ errCase' = [errCase EXCEPT !.out = Some(Error_from_abi(errCase.in))]
    /\ UNCHANGED <<netStack, initLog, notBridge>>

\* abi::network_init(): starts the stack unless it has been started already;
\* started tells whether a bring-up it attempts succeeds
native_network_init(stack, started) ==
    IF stack.up THEN [stack |-> stack, r |-> 0]
    ELSE IF started THEN [stack |-> [up |-> TRUE, bringups |-> stack.bringups + 1], r |-> 0]
    ELSE [stack |-> stack, r |-> -1]

\* mutant: the native result is not looked at
init_unchecked(stack, started) ==
    [stack |-> native_network_init(stack, started).stack, res |-> Ok(0)]

\* init (net.rs:15-24)
init(stack, started) ==
    LET n == native_network_init(stack, started) IN
    [stack |-> n.stack,
     res |-> IF n.r < 0
             THEN Err("Uncategorized", "Unable to initialize network interface")
             ELSE Ok(0)]

NetworkInit ==
    /\ Len(initLog) < MaxInitCalls
    /\ \E started \in BOOLEAN :
         LET out == init(netStack, started) IN
         /\ netStack' = out.stack
         /\ initLog' = Append(initLog, [res |-> out.res, stack |-> out.stack,
                                        r |-> native_network_init(netStack, started).r])
    /\ UNCHANGED <<errCase, notBridge>>

BridgeNext == ErrorFromAbi \/ NetworkInit

-----------------------------------------------------------------------------
(***************************************************************************)
(* fs.rs: readdir, and the native directory handle shared by a ReadDir and  *)
(* the DirEntry values it yields                                            *)
(***************************************************************************)

\* bound: readdir calls that open a directory in one behaviour
MaxReadDirs == 2
\* bound: DirEntry values yielded in one behaviour
MaxEntries == 3

\* the paths given to readdir, as sequences of components
RootPaths == {<<"d">>, <<"d", "e">>}

\* what the native layer holds under every such path: ".", "a" and "a."
LifeDir ==
    << [d_name |-> <<".", ".">>, d_namelen |-> 1, d_ino |-> 1, d_type |-> DT_DIR],
       [d_name |-> <<"a", ".">>, d_namelen |-> 1, d_ino |-> 2, d_type |-> DT_REG],
       [d_name |-> <<"a", ".">>, d_namelen |-> 2, d_ino |-> 3, d_type |-> DT_REG] >>

LifeInit ==
    /\ dhandles = <<>>
    /\ inners = <<>>
    /\ readdirs = <<>>
    /\ entries = <<>>
    /\ dirRet = [op |-> "none"]

\* the native opendir and close on the handle table
native_opendir(hs) == Append(hs, [open |-> TRUE, closes |-> 0])
native_closedir(hs, h) == [hs EXCEPT ![h] = [open |-> FALSE, closes |-> @.closes + 1]]

\* readdir (fs.rs:514-520); r is the result of abi::opendir.  Returns the
\* handle table, the InnerReadDir in its new Arc and the ReadDir.
readdir(hs, path, r) ==
    IF ~cvt(r).ok
    THEN [hs |-> hs, calls |-> <<[f |-> "opendir", arg |-> path]>>, res |-> cvt(r)]
    ELSE [hs |-> native_opendir(hs), calls |-> <<[f |-> "opendir", arg |-> path]>>,
          inner |-> [dirp |-> cvt(r).val, root |-> path, strong |-> 1],
          res |-> Ok([end_of_stream |-> FALSE])]

\* mutant: the handle is closed whenever a ReadDir or a DirEntry is dropped
Arc_InnerReadDir_drop_eager(hs, inner) ==
    [inner |-> [inner EXCEPT !.strong = @ - 1],
     hs    |-> native_closedir(hs, inner.dirp),
     calls |-> <<[f |-> "close", arg |-> inner.dirp]>>]

\* dropping a ReadDir or a DirEntry gives up one strong reference to the
\* Arc<InnerReadDir> (fs.rs:32-53); the last one drops the InnerReadDir and
\* with it dirp, whose FileDesc closes the native handle
Arc_InnerReadDir_drop(hs, inner) ==
    LET n == inner.strong - 1 IN
    [inner |-> [inner EXCEPT !.strong = n],
     hs    |-> IF n = 0 THEN native_closedir(hs, inner.dirp) ELSE hs,
     calls |-> IF n = 0 THEN <<[f |-> "close", arg |-> inner.dirp]>> ELSE <<>>]

\* PathBuf::join with a file name: one more component
Path_join(root, name) == Append(root, name)

\* DirEntry::path (fs.rs:262-264): self.dir.root.join(self.file_name_os_str())
DirEntry_path(ins, e) == Path_join(ins[e.dir].root, e.name)

LiveReadDirs == {i \in DOMAIN readdirs : readdirs[i].alive}
LiveEntries  == {j \in DOMAIN entries : entries[j].alive}

Readdir ==
    /\ \E path \in RootPaths, r \in {Len(dhandles) + 1, -ENOENT} :
         LET out == readdir(dhandles, path, r) IN
         /\ out.res.ok => Len(readdirs) < MaxReadDirs
         /\ dhandles' = out.hs
         /\ inners' = IF out.res.ok THEN Append(inners, out.inner) ELSE inners
         /\ readdirs' = IF out.res.ok
                        THEN Append(readdirs,
                                    [inner |-> Len(inners) + 1, arg |-> path, alive |-> TRUE,
                                     st |-> [dir |-> LifeDir, pos |-> 0,
                                             end_of_stream |-> out.res.val.end_of_stream]])
                        ELSE readdirs
         /\ dirRet' = [op |-> "readdir", calls |-> <<>>]
    /\ UNCHANGED <<entries, notLife>>

\* ReadDir::next on the i-th ReadDir: a DirEntry it yields holds
\* Arc::clone(&self.inner) (fs.rs:256)
ReadDirNext(i) ==
    /\ i \in LiveReadDirs
    /\ Len(entries) < MaxEntries
    /\ LET r   == readdirs[i]
           out == ReadDir_next(r.st, 0, errno)
           got == out.ret.some /\ out.ret.v.ok
       IN  /\ readdirs' = [readdirs EXCEPT ![i].st.pos = out.pos,
                                            ![i].st.end_of_stream = out.eos]
           /\ entries' = IF got
                         THEN Append(entries, [dir |-> r.inner, from |-> i, alive |-> TRUE,
                                               name |-> out.ret.v.val.name,
                                               d_ino |-> out.ret.v.val.d_ino,
                                               d_type |-> out.ret.v.val.d_type])
                         ELSE entries
           /\ inners' = IF got THEN [inners EXCEPT ![r.inner].strong = @ + 1] ELSE inners
           /\ dirRet' = [op |-> "next", calls |-> <<>>]
    /\ UNCHANGED <<dhandles, notLife>>

DropReadDir(i) ==
    /\ i \in LiveReadDirs
    /\ LET k   == readdirs[i].inner
           out == Arc_InnerReadDir_drop(dhandles, inners[k])
       IN  /\ readdirs' = [readdirs EXCEPT ![i].alive = FALSE]
           /\ inners' = [inners EXCEPT ![k] = out.inner]
           /\ dhandles' = out.hs
           /\ dirRet' = [op |-> "drop_readdir", calls |-> out.calls]
    /\ UNCHANGED <<entries, notLife>>

DropEntry(j) ==
    /\ j \in LiveEntries
    /\ LET k   == entries[j].dir
           out == Arc_InnerReadDir_drop(dhandles, inners[k])
       IN  /\ entries' = [entries EXCEPT ![j].alive = FALSE]
           /\ inners' = [inners EXCEPT ![k] = out.inner]
           /\ dhandles' = out.hs
           /\ dirRet' = [op |-> "drop_entry", calls |-> out.calls]
    /\ UNCHANGED <<readdirs, notLife>>

DirLifeNext ==
    \/ Readdir
    \/ \E i \in DOMAIN readdirs : ReadDirNext(i)
    \/ \E i \in DOMAIN readdirs : DropReadDir(i)
    \/ \E j \in DOMAIN entries : DropEntry(j)

-----------------------------------------------------------------------------
\* Each specification starts every part of the platform layer in its state
\* after construction and then runs the operations of one part.
\* the parts added to every initial state: nothing handed out, the initial
\* filesystem, no init() call yet, no directory opened
RestIdle    == OwnInit /\ PathInit /\ BridgeIdle /\ LifeInit
OldIdle     == OpenInit /\ AbiIdle /\ DirIdle /\ UdpInit
InitOpen    == OpenInit /\ AbiIdle /\ DirIdle /\ NetInit /\ UdpInit /\ RestIdle
InitAbi     == OpenInit /\ AbiInit /\ DirIdle /\ NetInit /\ UdpInit /\ RestIdle
InitDir     == OpenInit /\ AbiIdle /\ DirInit /\ NetInit /\ UdpInit /\ RestIdle
InitNet     == OpenInit /\ AbiIdle /\ DirIdle /\ NetInit /\ UdpInit /\ RestIdle
InitTimeout == OpenInit /\ AbiIdle /\ DirIdle /\ ConnectedInit /\ UdpInit /\ RestIdle
InitStub    == OldIdle /\ ConnectedInit /\ OwnInit /\ PathInit /\ BridgeIdle /\ LifeInit
InitBridge  == OldIdle /\ NetInit /\ OwnInit /\ PathInit /\ BridgeInit /\ LifeInit

SpecOpen    == InitOpen /\ [][OpenNext]_vars
SpecAbi     == InitAbi /\ [][AbiNext]_vars
SpecDir     == InitDir /\ [][DirNext]_vars
SpecNet     == InitNet /\ [][NetNext]_vars
SpecTimeout == InitTimeout /\ [][TimeoutNext]_vars
SpecUdp     == InitOpen /\ [][UdpNext]_vars
SpecStub    == InitStub /\ [][StubNext]_vars
SpecBridge  == InitBridge /\ [][BridgeNext]_vars
SpecLife    == InitNet /\ [][LifeNext]_vars
SpecOwn     == InitTimeout /\ [][OwnNext]_vars
SpecDirLife == InitNet /\ [][DirLifeNext]_vars

-----------------------------------------------------------------------------
(***************************************************************************)
(* Properties                                                              *)
(***************************************************************************)

\* ---------------------------------------------------------------- C1
\* C1: for every Arc<Socket> and any interleaving of duplicate() and drop:
\* while a clone is alive socket_close has not been called for its socket
\* (it is open), and once the last clone is dropped socket_close has been
\* called for it exactly once.
C1_CloseOnceAfterLastClone ==
    \A a \in ArcIds :
        LET s == arcs[a].sock IN
        /\ arcs[a].strong > 0 => socks[s].closes = 0 /\ socks[s].open
        /\ arcs[a].strong = 0 => socks[s].closes = 1 /\ ~socks[s].open

\* one of two clones has just been dropped: the socket is still open, with no
\* socket_close call so far
C1_Witness ==
    /\ netRet.op = "drop"
    /\ arcs[netRet.arc].strong = 1
    /\ socks[arcs[netRet.arc].sock].open
    /\ socks[arcs[netRet.arc].sock].closes = 0

\* ---------------------------------------------------------------- C2
IsEnd(r) == ~r.ret.some \/ ~r.ret.v.ok

\* C2: once next() has returned None or an error, every later next() call on
\* that ReadDir returns None.
C2_ExhaustionIsPermanent ==
    \A i \in DOMAIN nextLog : \A j \in DOMAIN nextLog :
        (i < j /\ IsEnd(nextLog[i])) => nextLog[j].ret = None

\* next() failed while the directory still had records, and was called
\* twice more
C2_Witness ==
    /\ Len(nextLog) >= 3
    /\ nextLog[1].cause = "fail"
    /\ rd.pos < Len(rd.dir)
    /\ nextLog[3].ret = None

\* ---------------------------------------------------------------- C3
\* the name of a native record: the first d_namelen bytes of its buffer
NativeName(ent) == [i \in 1..ent.d_namelen |-> ent.d_name[i]]

RECURSIVE WithoutDots(_)
WithoutDots(recs) ==
    IF recs = <<>> THEN <<>>
    ELSE LET ent  == Head(recs)
             rest == WithoutDots(Tail(recs))
         IN  IF NativeName(ent) \in {<<".">>, <<".", ".">>}
             THEN rest
             ELSE <<[name |-> NativeName(ent), d_ino |-> ent.d_ino,
                     d_type |-> ent.d_type]>> \o rest

\* C3: the entries next() has yielded are the records the native readdir has
\* returned so far, in order, without those named "." and "..", each with its
\* name, inode number and type tag unchanged; at a clean end of the directory
\* that is the whole native sequence.
C3_YieldsNativeWithoutDots ==
    /\ yielded = WithoutDots(SubSeq(rd.dir, 1, rd.pos))
    /\ (\E i \in DOMAIN nextLog : nextLog[i].cause = "end")
          => yielded = WithoutDots(rd.dir)

\* a directory of three records, ".." in the middle, read to its end
C3_Witness ==
    /\ Len(rd.dir) = 3
    /\ NativeName(rd.dir[2]) = <<".", ".">>
    /\ Len(yielded) = 2
    /\ \E i \in DOMAIN nextLog : nextLog[i].cause = "end"

\* ---------------------------------------------------------------- C4
\* C4 (as claimed): when the native readdir returns null at a clean end of
\* the directory next() returns None, whatever errno held before; when it
\* returns null because it failed, next() returns that error, and every later
\* call returns None.
C4_EndIsNotAnError ==
    \A i \in DOMAIN nextLog :
        /\ nextLog[i].cause = "end"  => nextLog[i].ret = None
        /\ nextLog[i].cause = "fail" =>
              /\ nextLog[i].ret = Some(OsError(5))
              /\ \A j \in DOMAIN nextLog : j > i => nextLog[j].ret = None

\* ---------------------------------------------------------------- C5
\* the invalid combinations, as the claim lists them
InvalidAccess(o)   == ~o.read /\ ~o.write /\ ~o.append
InvalidCreation(o) ==
    \/ ~o.write /\ ~o.append /\ (o.truncate \/ o.create \/ o.create_new)
    \/ o.append /\ o.truncate /\ ~o.create_new
InvalidOptions(o)  == InvalidAccess(o) \/ InvalidCreation(o)

\* C5: File::open_c fails with InvalidInput and issues no native open exactly
\* when the combination of flags is invalid ("invalid access mode" when read,
\* write and append are all false, "invalid creation mode" otherwise); for
\* every other combination it issues exactly one native open.
C5_InvalidOptionsRejectedBeforeOpen ==
    lastOpen.called =>
        LET o == lastOpen.opts
            rejected == /\ ~lastOpen.res.ok
                        /\ lastOpen.res.kind = "InvalidInput"
                        /\ ~lastOpen.call.issued
                        /\ nativeOpens = lastOpen.before
        IN  /\ InvalidOptions(o) <=> rejected
            /\ rejected => lastOpen.res.msg = IF InvalidAccess(o)
                                              THEN "invalid access mode"
                                              ELSE "invalid creation mode"
            /\ ~InvalidOptions(o) =>
                  lastOpen.call.issued /\ nativeOpens = lastOpen.before + 1

\* append + truncate without create_new, rejected after an earlier open went
\* to the native layer
C5_Witness ==
    /\ lastOpen.called
    /\ lastOpen.opts.append /\ lastOpen.opts.truncate /\ ~lastOpen.opts.create_new
    /\ ~lastOpen.res.ok
    /\ nativeOpens = 1

\* ---------------------------------------------------------------- C6
\* the documented flags
DocAccess(o) ==
    IF o.append THEN (IF o.read THEN O_RDWR + O_APPEND ELSE O_WRONLY + O_APPEND)
    ELSE IF o.read /\ o.write THEN O_RDWR
    ELSE IF o.write THEN O_WRONLY
    ELSE O_RDONLY
DocCreation(o) ==
    IF o.create_new THEN O_CREAT + O_EXCL
    ELSE IF o.create /\ o.truncate THEN O_CREAT + O_TRUNC
    ELSE IF o.create THEN O_CREAT
    ELSE IF o.truncate THEN O_TRUNC
    ELSE 0

\* C6: for a valid combination the native open receives the documented
\* access flags ORed with the documented creation flags (the two groups share
\* no bit), and as permission the options' mode, 0o777, when O_CREAT is among
\* them and 0 otherwise.
C6_OpenFlagsAsDocumented ==
    (lastOpen.called /\ lastOpen.call.issued) =>
        LET o == lastOpen.opts IN
        /\ lastOpen.call.flags = DocAccess(o) + DocCreation(o)
        /\ lastOpen.call.mode = IF o.create \/ o.create_new THEN 511 ELSE 0

\* read + append + create_new + truncate: O_RDWR|O_APPEND|O_CREAT|O_EXCL
C6_Witness ==
    /\ lastOpen.called /\ lastOpen.call.issued
    /\ lastOpen.opts.read /\ lastOpen.opts.append
    /\ lastOpen.opts.create_new /\ lastOpen.opts.truncate
    /\ lastOpen.call.flags = 1218

\* ---------------------------------------------------------------- C7
\* C7: there and back is the identity, from either side: from_abi(as_abi(x))
\* = x for every portable value and as_abi(from_abi(y)) = y for every native
\* value of each of the seven kinds, and the value in between has the same
\* V4 / V6 variant.
C7_ConversionsRoundTrip ==
    /\ Len(abiCase.vals) = 3 => abiCase.vals[3] = abiCase.vals[1]
    /\ (Len(abiCase.vals) >= 2 /\ abiCase.kind \in {"IpAddr", "SocketAddr"})
          => abiCase.vals[2].tag = abiCase.vals[1].tag

\* a portable V6 socket address with distinct flowinfo and scope_id, taken
\* to the native side and back
C7_Witness ==
    /\ abiCase.kind = "SocketAddr" /\ abiCase.side = "std"
    /\ Len(abiCase.vals) = 3
    /\ abiCase.vals[1].tag = "V6"
    /\ abiCase.vals[1].v.flowinfo # abiCase.vals[1].v.scope_id

\* ---------------------------------------------------------------- C8
\* C8: once a timeout was set successfully through set_read_timeout or
\* set_write_timeout on any clone of a stream, read_timeout() and
\* write_timeout() both return the value of the most recent such call.
C8_TimeoutsShareOneSetting ==
    \A a \in ArcIds :
        LET s == arcs[a].sock IN
        (arcs[a].strong > 0 /\ arcs[a].kind = "stream" /\ socks[s].lastSet.set) =>
            /\ TcpStream_read_timeout(socks, s, NoErr)  = Ok(socks[s].lastSet.d)
            /\ TcpStream_write_timeout(socks, s, NoErr) = Ok(socks[s].lastSet.d)

\* only the read timeout was set, on a stream with two clones
C8_Witness ==
    /\ netRet.op = "set_read_timeout" /\ netRet.res.ok
    /\ arcs[netRet.arc].strong = 2
    /\ socks[arcs[netRet.arc].sock].lastSet = [set |-> TRUE, d |-> Some(5)]
    /\ TcpStream_write_timeout(socks, arcs[netRet.arc].sock, NoErr) = Ok(Some(5))

\* ---------------------------------------------------------------- C9
\* C9 (as claimed): when accept completes for a connection made by connect,
\* the address it returns is the connecting stream's socket_addr() and the
\* accepted stream's peer_addr(), and the connecting stream's peer_addr() is
\* the accepted stream's socket_addr().
C9_AcceptReturnsPeerAddress ==
    (netRet.op = "accept" /\ netRet.res.ok) =>
        LET acc == netRet.res.val.stream
            cli == socks[acc].peer
        IN  /\ Ok(netRet.res.val.addr) = TcpStream_socket_addr(socks, cli, NoErr)
            /\ Ok(netRet.res.val.addr) = TcpStream_peer_addr(socks, acc, NoErr)
            /\ TcpStream_peer_addr(socks, cli, NoErr)
                  = TcpStream_socket_addr(socks, acc, NoErr)

\* ---------------------------------------------------------------- C10
\* C10: every UdpSocket operation fails with Unsupported for every argument,
\* issues no native call, and no UdpSocket value is ever created.
C10_UdpAlwaysUnsupported ==
    udpRet.op # "none" =>
        /\ ~udpRet.res.ok
        /\ udpRet.res.kind = "Unsupported"
        /\ udpRet.calls = <<>>
        /\ udpRet.sockets = 0

\* bind with a resolved address
C10_Witness ==
    /\ udpRet.op = "bind"
    /\ udpRet.arg.addr.ok
    /\ ~udpRet.res.ok

\* ---------------------------------------------------------------- C11
\* C11: rename, symlink, link, readlink, stat, lstat, canonicalize and
\* DirBuilder::mkdir fail with Unsupported; seek, duplicate, fsync, datasync,
\* truncate, set_permissions and set_times of a File fail with the
\* invalid-argument error (code 22); linger / set_linger of a stream and
\* ttl / set_ttl / only_v6 / set_only_v6 of a listener fail with Unsupported;
\* each on every call, without a native call and without a change of state.
C11_NoNativeEquivalentFailsFixed ==
    /\ fsRet.op \in {"rename", "symlink", "link", "readlink", "stat", "lstat",
                     "canonicalize", "mkdir"} =>
          /\ ~fsRet.res.ok /\ fsRet.res.kind = "Unsupported"
          /\ fsRet.calls = <<>> /\ fsTree = fsRet.before
    /\ fsRet.op \in {"seek", "duplicate", "fsync", "datasync", "truncate",
                     "set_permissions", "set_times"} =>
          /\ ~fsRet.res.ok /\ fsRet.res.kind = "Os" /\ fsRet.res.msg = 22
          /\ fsRet.calls = <<>> /\ fsTree = fsRet.before
    /\ netRet.op \in {"linger", "set_linger", "ttl", "set_ttl", "only_v6", "set_only_v6"} =>
          /\ ~netRet.res.ok /\ netRet.res.kind = "Unsupported"
          /\ netRet.calls = <<>> /\ socks = netRet.before
          /\ netRet.op \in {"linger", "set_linger"} <=> arcs[netRet.arc].kind = "stream"

\* stat of a path that does not exist, after a native call has changed the
\* filesystem, and only_v6 asked of the listener
C11_Witness ==
    /\ fsRet.op = "stat" /\ fsRet.p = <<"x">>
    /\ fsTree # InitialTree
    /\ netRet.op = "only_v6"

\* ---------------------------------------------------------------- C12
\* the fourteen kinds surfaced upward
Taxonomy ==
    {"NotFound", "AlreadyExists", "InvalidInput", "InvalidData", "ConnectionRefused",
     "ConnectionReset", "NotConnected", "AddrInUse", "AddrNotAvailable", "WouldBlock",
     "TimedOut", "WriteZero", "Unsupported", "Other"}
\* the native kinds that have a portable kind of the same name
SameNamed ==
    {<<"abi::NotFound", "NotFound">>, <<"abi::AlreadyExists", "AlreadyExists">>,
     <<"abi::InvalidInput", "InvalidInput">>, <<"abi::InvalidData", "InvalidData">>,
     <<"abi::ConnectionRefused", "ConnectionRefused">>,
     <<"abi::ConnectionReset", "ConnectionReset">>,
     <<"abi::NotConnected", "NotConnected">>, <<"abi::AddrInUse", "AddrInUse">>,
     <<"abi::AddrNotAvailable", "AddrNotAvailable">>, <<"abi::WouldBlock", "WouldBlock">>,
     <<"abi::TimedOut", "TimedOut">>, <<"abi::WriteZero", "WriteZero">>,
     <<"abi::Unsupported", "Unsupported">>, <<"abi::Other", "Other">>}

\* C12: converting a native error always gives one of the fourteen kinds: the
\* same-named kind where there is one, InvalidInput for NotSocket, InvalidData
\* for NotListening and InUse, Other for every other native kind; the message
\* is the native message.
C12_ErrorKindMappingTotal ==
    errCase.out.some =>
        LET k == errCase.in.kind
            r == errCase.out.v
        IN  /\ ~r.ok /\ r.kind \in Taxonomy
            /\ \A p \in SameNamed : k = p[1] => r.kind = p[2]
            /\ k = "abi::NotSocket" => r.kind = "InvalidInput"
            /\ k \in {"abi::NotListening", "abi::InUse"} => r.kind = "InvalidData"
            /\ k \notin {p[1] : p \in SameNamed}
                     \cup {"abi::NotSocket", "abi::NotListening", "abi::InUse"}
                  => r.kind = "Other"
            /\ r.msg = errCase.in.msg

\* a native kind the bridge does not know, with a message, converted
C12_Witness ==
    /\ errCase.out.some
    /\ errCase.in.kind = "abi::Unknown1"
    /\ errCase.in.msg = "would block"
    /\ errCase.out.v.kind = "Other"

\* ---------------------------------------------------------------- C13
\* C13: remove_dir_all returns success for every path, issues no native call
\* and removes nothing.
C13_RemoveDirAllIsNoOp ==
    fsRet.op = "remove_dir_all" =>
        /\ fsRet.res.ok
        /\ fsRet.calls = <<>>
        /\ fsTree = fsRet.before

\* remove_dir_all of the directory d while the file d/f is in it
C13_Witness ==
    /\ fsRet.op = "remove_dir_all" /\ fsRet.p = <<"d">>
    /\ <<"d", "f">> \in fsRet.before
    /\ fsRet.res.ok

\* ---------------------------------------------------------------- C14
\* C14 (as claimed): File::file_attr, DirEntry::metadata, stat and lstat each
\* return an error value on every call; none of them panics.
C14_AttributeQueriesReturnErrors ==
    fsRet.op \in {"file_attr", "metadata", "stat", "lstat"} =>
        /\ ~fsRet.res.ok
        /\ fsRet.res.kind # "panic"

C16_NoSocketLeftOpenUnowned ==
    \A s \in SockIds :
        socks[s].open => \E a \in ArcIds : arcs[a].sock = s /\ arcs[a].strong > 0

\* ---------------------------------------------------------------- C17
ConnectSteps        == <<"socket", "tcp_bind", "tcp_connect">>
ConnectTimeoutSteps == <<"socket", "socket_set_timeout", "tcp_bind", "tcp_connect">>
BindSteps           == <<"socket", "tcp_bind", "tcp_listen">>
\* how many steps are issued when step f is the first to fail
StepsIssued(steps, f) ==
    IF f = "none" THEN Len(steps) ELSE CHOOSE i \in DOMAIN steps : steps[i] = f
Wildcard == V4([ip_addr |-> [a |-> 0, b |-> 0, c |-> 0, d |-> 0], port |-> 0])
\* the native calls of a connect / connect_timeout to target on socket s
ConnectCalls(steps, s, target, d) ==
    [i \in DOMAIN steps |->
        CASE steps[i] = "socket"             -> Call("socket", 0, 0)
          [] steps[i] = "socket_set_timeout" -> Call("socket_set_timeout", s, Some(d))
          [] steps[i] = "tcp_bind"           -> Call("tcp_bind", s, Wildcard)
          [] steps[i] = "tcp_connect"        -> Call("tcp_connect", s, SocketAddr_as_abi(target))]

\* C17: connect issues socket, bind to the wildcard, connect to the target;
\* connect_timeout issues socket, set-timeout(duration), bind to the wildcard,
\* connect; the first failing step ends the operation with its translated
\* error, no later step is issued and no TcpStream is returned.
C17_ConnectCallOrder ==
    netRet.op \in {"connect", "connect_timeout"} =>
        LET timed  == netRet.op = "connect_timeout"
            steps  == IF timed THEN ConnectTimeoutSteps ELSE ConnectSteps
            addr   == IF timed THEN Ok(netRet.arg.addr) ELSE netRet.arg
            d      == IF timed THEN netRet.arg.d ELSE 0
        IN  IF ~addr.ok
            THEN netRet.calls = <<>> /\ netRet.res = addr /\ netRet.arc = 0
            ELSE LET n == StepsIssued(steps, netRet.fail) IN
                 /\ netRet.calls = SubSeq(ConnectCalls(steps, Len(socks), addr.val, d), 1, n)
                 /\ netRet.fail = "none" =>
                       /\ netRet.res = Ok(Len(socks))
                       /\ arcs[netRet.arc] = [kind |-> "stream", sock |-> Len(socks), strong |-> 1]
                 /\ netRet.fail # "none" =>
                       /\ netRet.res = Err(ErrorKind_from_abi(netRet.err.kind), netRet.err.msg)
                       /\ netRet.arc = 0
                       /\ netRet.fail # "socket" =>
                             \A a \in ArcIds : arcs[a].sock # Len(socks)

\* connect_timeout with duration 9 whose connect step fails: four calls, the
\* timeout installed second
C17_Witness ==
    /\ netRet.op = "connect_timeout"
    /\ netRet.fail = "tcp_connect"
    /\ netRet.arg.d = 9
    /\ Len(netRet.calls) = 4
    /\ netRet.calls[2].f = "socket_set_timeout"
    /\ ~netRet.res.ok

\* ---------------------------------------------------------------- C18
\* C18: bind issues socket, bind to the requested address, listen with backlog
\* 16, whatever the address; a failing step prevents every later step, and a
\* listener is returned only when all three succeeded.
C18_BindCallOrder ==
    (netRet.op = "bind" /\ netRet.arg.ok) =>
        LET s    == Len(socks)
            full == <<Call("socket", 0, 0),
                      Call("tcp_bind", s, SocketAddr_as_abi(netRet.arg.val)),
                      Call("tcp_listen", s, 16)>>
            n    == StepsIssued(BindSteps, netRet.fail)
        IN  /\ netRet.calls = SubSeq(full, 1, n)
            /\ netRet.res.ok <=> netRet.fail = "none"
            /\ netRet.res.ok =>
                  /\ arcs[netRet.arc] = [kind |-> "listener", sock |-> s, strong |-> 1]
                  /\ socks[s].listening /\ socks[s].backlog = 16
                  /\ socks[s].local = SocketAddr_as_abi(netRet.arg.val)
            /\ ~netRet.res.ok =>
                  /\ netRet.arc = 0
                  /\ netRet.fail # "socket" =>
                        /\ ~socks[s].listening
                        /\ \A a \in ArcIds : arcs[a].sock # s

\* a successful bind to port 81
C18_Witness ==
    /\ netRet.op = "bind" /\ netRet.res.ok
    /\ netRet.arg = Ok(V4(SocketAddrV4_new(Loopback, 81)))
    /\ Len(netRet.calls) = 3

\* ---------------------------------------------------------------- C19
\* the ReadDir i or a DirEntry it yielded is alive
InUse(i) == readdirs[i].alive \/ \E j \in LiveEntries : entries[j].from = i

\* C19: the native handle of a ReadDir is open, never closed, while the
\* ReadDir or one of its entries is alive, and closed exactly once when all of
\* them have been dropped; two ReadDirs never share a handle; the path of an
\* entry is the path given to readdir joined with the entry's name.
C19_DirHandleLifetime ==
    /\ \A i \in DOMAIN readdirs :
          LET h == inners[readdirs[i].inner].dirp IN
          IF InUse(i) THEN dhandles[h].open /\ dhandles[h].closes = 0
                      ELSE ~dhandles[h].open /\ dhandles[h].closes = 1
    /\ \A i, k \in DOMAIN readdirs :
          i # k => inners[readdirs[i].inner].dirp # inners[readdirs[k].inner].dirp
    /\ \A j \in DOMAIN entries :
          DirEntry_path(inners, entries[j])
             = readdirs[entries[j].from].arg \o <<entries[j].name>>

\* two ReadDirs; the first was dropped before one of its two entries, and its
\* handle is still open; the second and all it yielded are gone
C19_Witness ==
    /\ Len(readdirs) = 2
    /\ ~readdirs[1].alive /\ InUse(1)
    /\ \E j \in DOMAIN entries : entries[j].from = 1 /\ ~entries[j].alive
    /\ ~InUse(2)
    /\ dhandles[inners[readdirs[2].inner].dirp].closes = 1

\* ---------------------------------------------------------------- C20
\* C20: into_socket on the only live clone returns the native socket, and the
\* layer never closes that socket afterwards; with another clone alive it
\* panics and returns no socket, and the socket is closed exactly once, when
\* the last remaining clone is dropped.
C20_IntoSocketTransfersOwnership ==
    /\ \A s \in handedOut.out : socks[s].open /\ socks[s].closes = 0
    /\ netRet.op = "into_socket" =>
          LET s == arcs[netRet.arc].sock IN
          /\ netRet.calls = <<>>
          /\ IF netRet.res.ok
             THEN /\ netRet.res.val = s
                  /\ arcs[netRet.arc].strong = 0
                  /\ s \in handedOut.out
             ELSE /\ netRet.res.kind = "panic"
                  /\ arcs[netRet.arc].strong >= 1
                  /\ s \notin handedOut.out
    /\ \A a \in ArcIds :
          arcs[a].sock \notin handedOut.out =>
              IF arcs[a].strong > 0
              THEN socks[arcs[a].sock].open /\ socks[arcs[a].sock].closes = 0
              ELSE ~socks[arcs[a].sock].open /\ socks[arcs[a].sock].closes = 1

\* one socket was handed out; into_socket on another handle panicked while a
\* clone was alive, and that handle's last clone has been dropped since
C20_Witness ==
    /\ handedOut.out # {}
    /\ \E a \in handedOut.panicked :
          /\ arcs[a].strong = 0
          /\ socks[arcs[a].sock].closes = 1

=============================================================================
